---------------------------- MODULE Spec2Model ----------------------------
(***************************************************************************)
(* A model of pycardano's TransactionBuilder (src/pycardano/txbuilder.py): *)
(* the declarative setters, and build() with its selection driver, input   *)
(* sorting, redeemer indexing, two-pass change/fee computation and change  *)
(* packer.                                                                 *)
(*                                                                         *)
(* The Value algebra, the CBOR lengths, fee(), min_lovelace() and          *)
(* max_tx_fee() live in modules of pycardano that txbuilder.py imports;    *)
(* they are modelled from spec.md (sections 3, 4.1, 4.3, 6).               *)
(***************************************************************************)
EXTENDS Integers, Sequences, FiniteSets, TLC

(***************************************************************************)
(* Bounds of the model.                                                    *)
(***************************************************************************)
MaxInputs == 2
MaxOutputs == 1
MaxAddresses == 1
MaxBuilds == 2
MaxOps == 4

(***************************************************************************)
(* Generic helpers.                                                        *)
(***************************************************************************)
Max(a, b) == IF a >= b THEN a ELSE b

Range(s) == {s[i] : i \in 1..Len(s)}

RECURSIVE SetToSeq(_)
\* Some enumeration of a finite set of integers, ascending.
SetToSeq(S) ==
  IF S = {} THEN <<>>
  ELSE LET m == CHOOSE x \in S : \A y \in S : x <= y
       IN <<m>> \o SetToSeq(S \ {m})

(***************************************************************************)
(* Value algebra (spec.md 3 and 4.1).  A MultiAsset is a function from a   *)
(* finite set of keys <<policy, name>> to quantities; a key that is absent *)
(* is different from a key with quantity 0.                                *)
(***************************************************************************)
EmptyMA == [k \in {} |-> 0]

Value(c, m) == [coin |-> c, ma |-> m]

ZeroValue == Value(0, EmptyMA)

MAGet(m, k) == IF k \in DOMAIN m THEN m[k] ELSE 0

MAAdd(a, b) == [k \in (DOMAIN a) \cup (DOMAIN b) |-> MAGet(a, k) + MAGet(b, k)]

MASub(a, b) == [k \in (DOMAIN a) \cup (DOMAIN b) |-> MAGet(a, k) - MAGet(b, k)]

\* filter(lambda p, n, v: (p, n) in K)
MARestrict(m, K) == [k \in (DOMAIN m) \cap K |-> m[k]]

\* filter(lambda p, n, v: v > 0)
MAPositive(m) == [k \in {j \in DOMAIN m : m[j] > 0} |-> m[k]]

VAdd(a, b) == Value(a.coin + b.coin, MAAdd(a.ma, b.ma))

VSub(a, b) == Value(a.coin - b.coin, MASub(a.ma, b.ma))

\* lt(a, b): a.coin < b.coin and every quantity of a is below b's (missing = 0).
VLt(a, b) ==
  /\ a.coin < b.coin
  /\ \A k \in DOMAIN a.ma : a.ma[k] < MAGet(b.ma, k)

RECURSIVE VSum(_)
VSum(vs) == IF vs = <<>> THEN ZeroValue ELSE VAdd(Head(vs), VSum(Tail(vs)))

\* Keys in policy-then-asset order.
KeyLess(j, k) == j[1] < k[1] \/ (j[1] = k[1] /\ j[2] < k[2])

RECURSIVE SortedKeys(_)
SortedKeys(K) ==
  IF K = {} THEN <<>>
  ELSE LET m == CHOOSE x \in K : \A y \in K \ {x} : KeyLess(x, y)
       IN <<m>> \o SortedKeys(K \ {m})

Policies(m) == {k[1] : k \in DOMAIN m}

PolicyKeys(m, p) == {k \in DOMAIN m : k[1] = p}

(***************************************************************************)
(* Serialized lengths (CBOR; spec.md 6 "Serialization").  An unsigned      *)
(* integer takes 1, 2, 3 or 5 bytes depending on its magnitude.            *)
(***************************************************************************)
UIntLen(n) ==
  IF n < 24 THEN 1 ELSE IF n < 256 THEN 2 ELSE IF n < 65536 THEN 3 ELSE 5

\* A negative integer -1-m is encoded like the unsigned m.
IntLen(n) == IF n >= 0 THEN UIntLen(n) ELSE UIntLen(-1 - n)

PolicyIdLen == 30
AssetNameLen == 2
AddressLen == 31
TxInRefLen == 34
DatumHashLen == 34
VKeyWitnessLen == 101
PlutusScriptLen == 6
DatumLen == 3

RECURSIVE AssetsLen(_, _)
\* The (name, quantity) entries of the keys K of m.
AssetsLen(m, K) ==
  IF K = {} THEN 0
  ELSE LET k == CHOOSE x \in K : TRUE
       IN AssetNameLen + IntLen(m[k]) + AssetsLen(m, K \ {k})

\* A map of policies, each a policy id and a map of its assets.
MultiAssetLen(m) ==
  1 + Cardinality(Policies(m)) * (PolicyIdLen + 1) + AssetsLen(m, DOMAIN m)

\* Value.to_cbor: a bare coin when there is no multi-asset, else [coin, multi_asset].
ValueLen(v) ==
  IF DOMAIN v.ma = {} THEN UIntLen(v.coin)
  ELSE 1 + IntLen(v.coin) + MultiAssetLen(v.ma)

(***************************************************************************)
(* The chain context (spec.md 6): protocol parameters and the UTxOs on     *)
(* chain.  Addresses "A" and "B" are key addresses, "S" is a script        *)
(* address.  A transaction id is a string of hex digits, here two digits.  *)
(***************************************************************************)
min_fee_a == 1
min_fee_b == 36
price_step == 1
price_mem == 1
max_tx_size == 363
max_tx_ex_steps == 6
max_tx_ex_mem == 4
max_val_size == 38
min_utxo == 300
coins_per_utxo_word == 5

KeyAddresses == {"A", "B"}
ScriptAddresses == {"S"}

NoDatumHash == 0

UTxOIds == 1..5

KeyUTxOs == {1, 2, 3}
ScriptUTxOs == {4, 5}

\* UTxO = (input = (transaction_id, index), output = (address, amount, datum_hash)).
UTxO(u) ==
  CASE u = 1 -> [tid |-> <<2, 0>>, index |-> 0, address |-> "A",
                 amount |-> Value(1000, EmptyMA), datum_hash |-> NoDatumHash]
    [] u = 2 -> [tid |-> <<1, 5>>, index |-> 1, address |-> "A",
                 amount |-> Value(600, <<1, 1>> :> 2), datum_hash |-> NoDatumHash]
    [] u = 3 -> [tid |-> <<1, 5>>, index |-> 0, address |-> "A",
                 amount |-> Value(300, (<<1, 1>> :> 1) @@ (<<2, 1>> :> 3)),
                 datum_hash |-> NoDatumHash]
    [] u = 4 -> [tid |-> <<3, 0>>, index |-> 0, address |-> "S",
                 amount |-> Value(500, EmptyMA), datum_hash |-> 1]
    [] u = 5 -> [tid |-> <<0, 7>>, index |-> 2, address |-> "S",
                 amount |-> Value(200, EmptyMA), datum_hash |-> 2]

\* context.utxos(address): the UTxOs at the address, in the chain's order.
ContextUTxOs(address) ==
  SetToSeq({u \in UTxOIds : UTxO(u).address = address})

\* fee(context, length, exec_steps, max_mem_unit): linear in the length, plus
\* the prices of the execution units.
CalcFee(length, steps, mem) ==
  min_fee_a * length + min_fee_b + price_step * steps + price_mem * mem

\* max_tx_fee(context): the fee of the largest transaction the protocol allows.
MaxTxFee == CalcFee(max_tx_size, max_tx_ex_steps, max_tx_ex_mem)

\* min_lovelace(amount, context): the minimum deposit of an output, growing
\* with the number of policies and assets it carries.
MinLovelace(v) ==
  IF DOMAIN v.ma = {} THEN min_utxo
  ELSE LET n == Cardinality(DOMAIN v.ma)
           bundle == 6 + (n * 12 + n + Cardinality(Policies(v.ma)) * 28 + 7) \div 8
       IN coins_per_utxo_word * (27 + bundle)

(***************************************************************************)
(* What the caller may pass to the builder.                                *)
(***************************************************************************)
\* Declared outputs: TransactionOutput(address, amount).
TxOut(a, v) == [address |-> a, amount |-> v]

OutputChoices ==
  { TxOut("B", Value(450, EmptyMA)),
    TxOut("B", Value(100, <<1, 1>> :> 1)),
    TxOut("B", Value(1400, EmptyMA)) }

NoMint == EmptyMA

\* mint: a MultiAsset whose quantities may be negative (a burn).
MintChoices == { NoMint, <<2, 2>> :> 1, <<1, 1>> :> (0 - 1) }

ExcludedChoices == { {}, {1}, {2} }

InputAddressChoices == {"A"}

\* The datum a caller passes with a script UTxO; its hash is its number.
DatumChoices == {1, 2}

DatumHash(d) == d

\* Execution units of every redeemer.
RedeemerSteps == 3
RedeemerMem == 2

ChangeAddress == "B"
NoAddress == "none"

(***************************************************************************)
(* The builder's state (TransactionBuilder.__init__), the body returned by *)
(* the last successful build(), and a record of the last operation.        *)
(***************************************************************************)
VARIABLES inputs, excluded_inputs, input_addresses, outputs, fee, mint,
          scripts, datums, redeemers, inputs_to_redeemers,
          body, shares, last, nbuilds, nops, packer, witnessing

builder == <<inputs, excluded_inputs, input_addresses, outputs, fee, mint,
             scripts, datums, redeemers, inputs_to_redeemers>>

vars == <<inputs, excluded_inputs, input_addresses, outputs, fee, mint,
          scripts, datums, redeemers, inputs_to_redeemers,
          body, shares, last, nbuilds, nops, packer, witnessing>>

(***************************************************************************)
(* _pack_tokens_for_change and _adding_asset_make_output_overflow.         *)
(***************************************************************************)
\* Whether output.amount plus current_assets plus the asset k exceeds
\* max_val_size, its coin set to the min-lovelace of the attempt.
adding_asset_make_output_overflow(output_ma, current_assets, k, q) ==
  LET attempt_ma == MAAdd(MAAdd(current_assets, k :> q), output_ma)
      attempt_amount == Value(MinLovelace(Value(0, attempt_ma)), attempt_ma)
  IN ValueLen(attempt_amount) > max_val_size

RECURSIVE PackAssets(_, _, _)
\* The inner loop over the assets ks of one policy; st = (multi_asset_arr,
\* output, old_amount, temp_assets).
PackAssets(st, ks, m) ==
  IF ks = <<>> THEN st
  ELSE LET k == Head(ks)
           st1 == IF adding_asset_make_output_overflow(st.output, st.temp_assets, k, m[k])
                  THEN [multi_asset_arr |->
                          Append(st.multi_asset_arr,
                                 IF DOMAIN st.temp_assets # {}
                                 THEN MAAdd(st.output, st.temp_assets)
                                 ELSE st.output),
                        output |-> EmptyMA,
                        old_amount |-> EmptyMA,
                        temp_assets |-> EmptyMA]
                  ELSE st
       IN PackAssets([st1 EXCEPT !.temp_assets = MAAdd(@, k :> m[k])], Tail(ks), m)

RECURSIVE PackPolicies(_, _, _)
\* The outer loop over the policies ps; ends with the final bucket appended.
PackPolicies(st, ps, m) ==
  IF ps = <<>> THEN Append(st.multi_asset_arr, st.output)
  ELSE LET st0 == [st EXCEPT !.temp_assets = EmptyMA, !.old_amount = st.output]
           st1 == PackAssets(st0, SortedKeys(PolicyKeys(m, Head(ps))), m)
           merged == MAAdd(st1.output, st1.temp_assets)
           updated_amount == Value(MinLovelace(Value(0, merged)), merged)
       IN IF ValueLen(updated_amount) > max_val_size
          THEN Append(st1.multi_asset_arr, st1.old_amount)
          ELSE PackPolicies([st1 EXCEPT !.output = merged], Tail(ps), m)

pack_tokens_for_change(change_estimator) ==
  PackPolicies([multi_asset_arr |-> <<>>, output |-> EmptyMA,
                old_amount |-> EmptyMA, temp_assets |-> EmptyMA],
               SetToSeq(Policies(change_estimator.ma)),
               change_estimator.ma)

(***************************************************************************)
(* _calc_change                                                            *)
(***************************************************************************)
OutputAmounts(outs) == [i \in 1..Len(outs) |-> outs[i].amount]

InputAmounts(ins) == [i \in 1..Len(ins) |-> UTxO(ins[i]).amount]

\* Fault variant of the filter: every entry kept.
KeepAllAssets(m) == m

\* "Remove any asset that has 0 quantity": filter(lambda p, n, v: v > 0).
RemoveZeroAssets(m) == MAPositive(m)

RECURSIVE ChangeLoopUnchecked(_, _, _, _)
\* Fault variant of the loop over the buckets: the check of lines 323-330 left
\* out.
ChangeLoopUnchecked(change, arr, acc, precise_fee) ==
  IF arr = <<>> THEN [status |-> "ok", changes |-> acc]
  ELSE LET multi_asset == Head(arr)
           change_value ==
             IF Len(arr) = 1 THEN Value(change.coin, multi_asset)
             ELSE Value(MinLovelace(Value(0, multi_asset)), multi_asset)
           rest == VSub(change, change_value)
       IN ChangeLoopUnchecked(Value(rest.coin, MAPositive(rest.ma)), Tail(arr),
                              Append(acc, TxOut(ChangeAddress, change_value)),
                              precise_fee)

RECURSIVE ChangeLoop(_, _, _, _)
\* The loop over the buckets: every bucket but the last takes its min-lovelace,
\* the last takes all the coin that is left.
ChangeLoop(change, arr, acc, precise_fee) ==
  IF arr = <<>> THEN [status |-> "ok", changes |-> acc]
  ELSE LET multi_asset == Head(arr)
           change_value ==
             IF Len(arr) = 1 THEN Value(change.coin, multi_asset)
             ELSE Value(MinLovelace(Value(0, multi_asset)), multi_asset)
           rest == VSub(change, change_value)
       IN IF precise_fee /\ change.coin - MinLovelace(Value(0, multi_asset)) < 0
          THEN [status |-> "InsufficientUTxOBalance", changes |-> <<>>]
          ELSE ChangeLoop(Value(rest.coin, MAPositive(rest.ma)), Tail(arr),
                          Append(acc, TxOut(ChangeAddress, change_value)),
                          precise_fee)

calc_change(fees, ins, outs, precise_fee) ==
  LET requested == VAdd(Value(fees, EmptyMA), VSum(OutputAmounts(outs)))
      provided0 == VSum(InputAmounts(ins))
      provided == IF DOMAIN mint # {}
                  THEN Value(provided0.coin, MAAdd(provided0.ma, mint))
                  ELSE provided0
      change0 == VSub(provided, requested)
      change == Value(change0.coin, RemoveZeroAssets(change0.ma))
  IN IF ~ VLt(requested, provided)
     THEN [status |-> "InvalidTransaction", changes |-> <<>>]
     ELSE IF change0.coin < 0
     THEN [status |-> "InsufficientUTxOBalance", changes |-> <<>>]
     ELSE IF DOMAIN change.ma = {}
     THEN [status |-> "ok", changes |-> <<TxOut(ChangeAddress, Value(change.coin, EmptyMA))>>]
     ELSE ChangeLoop(change, pack_tokens_for_change(change), <<>>, precise_fee)

(***************************************************************************)
(* Input order and redeemer indices (build, _set_redeemer_index).          *)
(***************************************************************************)
RECURSIVE StrLess(_, _)
\* Comparison of two strings of hex digits, as Python compares str values.
StrLess(a, b) ==
  IF a = <<>> THEN b # <<>>
  ELSE IF b = <<>> THEN FALSE
  ELSE Head(a) < Head(b) \/ (Head(a) = Head(b) /\ StrLess(Tail(a), Tail(b)))

\* Fault variant of the sort key: the transaction id alone, the index left out.
SortKeyTxIdOnly(u, v) == StrLess(UTxO(u).tid, UTxO(v).tid)

\* key = (str(utxo.input.transaction_id), utxo.input.index)
SortKeyLess(u, v) ==
  \/ StrLess(UTxO(u).tid, UTxO(v).tid)
  \/ (UTxO(u).tid = UTxO(v).tid /\ UTxO(u).index < UTxO(v).index)

RECURSIVE InsertUTxO(_, _)
\* x inserted after the elements that are not greater (list.sort is stable).
InsertUTxO(x, s) ==
  IF s = <<>> THEN <<x>>
  ELSE IF SortKeyLess(x, Head(s)) THEN <<x>> \o s
  ELSE <<Head(s)>> \o InsertUTxO(x, Tail(s))

RECURSIVE SortUTxOs(_)
\* selected_utxos.sort(key=...)
SortUTxOs(s) ==
  IF s = <<>> THEN <<>>
  ELSE InsertUTxO(s[Len(s)], SortUTxOs(SubSeq(s, 1, Len(s) - 1)))

RECURSIVE InsertRedeemer(_, _)
InsertRedeemer(x, s) ==
  IF s = <<>> THEN <<x>>
  ELSE IF x.index < Head(s).index THEN <<x>> \o s
  ELSE <<Head(s)>> \o InsertRedeemer(x, Tail(s))

RECURSIVE SortRedeemers(_)
\* self.redeemers.sort(key=lambda r: r.index)
SortRedeemers(rs) ==
  IF rs = <<>> THEN <<>>
  ELSE InsertRedeemer(rs[Len(rs)], SortRedeemers(SubSeq(rs, 1, Len(rs) - 1)))

RECURSIVE AssignIndices(_, _, _, _)
\* for i, utxo in enumerate(self.inputs): the redeemer of utxo gets index i.
AssignIndices(i, ins, rs, i2r) ==
  IF i > Len(ins) THEN rs
  ELSE AssignIndices(i + 1, ins,
         IF ins[i] \in DOMAIN i2r
         THEN [j \in 1..Len(rs) |->
                 IF rs[j].id = i2r[ins[i]] THEN [rs[j] EXCEPT !.index = i - 1]
                 ELSE rs[j]]
         ELSE rs,
         i2r)

\* Fault variant of _set_redeemer_index: the indices assigned, the list not
\* sorted afterwards.
set_redeemer_index_unsorted(ins, rs, i2r) == AssignIndices(1, ins, rs, i2r)

set_redeemer_index(ins, rs, i2r) == SortRedeemers(AssignIndices(1, ins, rs, i2r))

(***************************************************************************)
(* The transaction and its serialized length (_build_tx_body,              *)
(* _build_fake_vkey_witnesses, build_witness_set, _build_full_fake_tx).    *)
(***************************************************************************)
InputRef(u) == <<UTxO(u).tid, UTxO(u).index>>

build_tx_body(ins, outs, f) ==
  [inputs |-> [i \in 1..Len(ins) |-> InputRef(ins[i])], outputs |-> outs, fee |-> f]

\* The verification-key hashes of the inputs at key addresses.
input_vkey_hashes(ins) ==
  {UTxO(ins[i]).address : i \in {j \in 1..Len(ins) : UTxO(ins[j]).address \in KeyAddresses}}

\* One placeholder witness per hash.
build_fake_vkey_witnesses(ins) == Cardinality(input_vkey_hashes(ins))

RECURSIVE InputsLen(_)
InputsLen(ins) ==
  IF ins = <<>> THEN 0
  ELSE 1 + TxInRefLen + UIntLen(UTxO(Head(ins)).index) + InputsLen(Tail(ins))

RECURSIVE OutputsLen(_)
OutputsLen(outs) ==
  IF outs = <<>> THEN 0
  ELSE 1 + AddressLen + ValueLen(Head(outs).amount) + OutputsLen(Tail(outs))

RECURSIVE RedeemersLen(_)
RedeemersLen(rs) ==
  IF rs = <<>> THEN 0
  ELSE 2 + UIntLen(Head(rs).index) + DatumLen
         + 1 + UIntLen(Head(rs).mem) + UIntLen(Head(rs).steps)
         + RedeemersLen(Tail(rs))

\* The body: a map of inputs, outputs, fee, and mint and script_data_hash
\* when they are set.
BodyLen(ins, outs, f, rs) ==
  1 + (2 + InputsLen(ins)) + (2 + OutputsLen(outs)) + (1 + UIntLen(f))
    + (IF DOMAIN mint # {} THEN 1 + MultiAssetLen(mint) ELSE 0)
    + (IF datums # <<>> \/ rs # <<>> THEN 1 + DatumHashLen ELSE 0)

\* The witness set: fake vkey witnesses, plutus scripts, datums, redeemers.
WitnessSetLen(ins, rs) ==
  1 + (IF build_fake_vkey_witnesses(ins) > 0
       THEN 2 + build_fake_vkey_witnesses(ins) * VKeyWitnessLen ELSE 0)
    + (IF scripts # <<>> THEN 2 + Len(scripts) * PlutusScriptLen ELSE 0)
    + (IF datums # <<>> THEN 2 + Len(datums) * DatumLen ELSE 0)
    + (IF rs # <<>> THEN 2 + RedeemersLen(rs) ELSE 0)

\* len(Transaction(tx_body, witness, True, auxiliary_data).to_cbor())
FullTxLen(ins, outs, f, rs) ==
  1 + BodyLen(ins, outs, f, rs) + WitnessSetLen(ins, rs) + 1 + 1

RECURSIVE SumSteps(_)
SumSteps(rs) == IF rs = <<>> THEN 0 ELSE Head(rs).steps + SumSteps(Tail(rs))

RECURSIVE SumMem(_)
SumMem(rs) == IF rs = <<>> THEN 0 ELSE Head(rs).mem + SumMem(Tail(rs))

(***************************************************************************)
(* _add_change_and_fee                                                     *)
(***************************************************************************)
\* Fault variant of the measurement: the body alone, the witness set left out.
MeasuredBodyLen(ins, outs, f, rs) == BodyLen(ins, outs, f, rs)

\* The transaction whose length sets the fee: _build_full_fake_tx() as it is
\* called between the two passes.
MeasuredTxLen(ins, outs, f, rs) == FullTxLen(ins, outs, f, rs)

\* The results below name the builder's outputs and fee when the method
\* returns or raises; appended is what "self._outputs += changes" added in
\* place to the list that held the outputs on entry, and rebound tells that
\* self._outputs was then bound to the copy original_outputs.

\* Fault variant of the second pass: the outputs are not set back, the change
\* of the first pass stays.
exact_change_result_not_restored(original_outputs, changes1, length, fee2, pass2) ==
  IF pass2.status # "ok"
  THEN [status |-> pass2.status, outputs |-> original_outputs \o changes1,
        fee |-> fee2, appended |-> changes1, rebound |-> TRUE, length |-> length]
  ELSE [status |-> "ok", outputs |-> (original_outputs \o changes1) \o pass2.changes,
        fee |-> fee2, appended |-> changes1, rebound |-> TRUE,
        length |-> length]

\* The second _calc_change has answered pass2.
exact_change_result(original_outputs, changes1, length, fee2, pass2) ==
  IF pass2.status # "ok"
  THEN [status |-> pass2.status, outputs |-> original_outputs, fee |-> fee2,
        appended |-> changes1, rebound |-> TRUE, length |-> length]
  ELSE [status |-> "ok", outputs |-> original_outputs \o pass2.changes,
        fee |-> fee2, appended |-> changes1, rebound |-> TRUE,
        length |-> length]

\* self.fee is fee2; with a change address the outputs are set back to
\* original_outputs and the change is computed again, precise_fee=True.
exact_fee_pass(with_change, ins, original_outputs, changes1, length, fee2) ==
  IF with_change
  THEN exact_change_result(original_outputs, changes1, length, fee2,
                           calc_change(fee2, ins, original_outputs, TRUE))
  ELSE [status |-> "ok", outputs |-> original_outputs, fee |-> fee2,
        appended |-> <<>>, rebound |-> FALSE, length |-> length]

\* _build_full_fake_tx() has measured length, and raises when it is above
\* max_tx_size; otherwise self.fee = fee(context, length, steps, mem).
measured_pass(with_change, ins, original_outputs, changes1, fee1, rs, length) ==
  IF length > max_tx_size
  THEN [status |-> "InvalidTransaction",
        outputs |-> original_outputs \o changes1, fee |-> fee1,
        appended |-> changes1, rebound |-> FALSE, length |-> length]
  ELSE exact_fee_pass(with_change, ins, original_outputs, changes1, length,
                      CalcFee(length, SumSteps(rs), SumMem(rs)))

\* The first _calc_change, against max_tx_fee, has answered pass1.
max_fee_pass(ins, original_outputs, rs, pass1) ==
  IF pass1.status # "ok"
  THEN [status |-> pass1.status, outputs |-> original_outputs,
        fee |-> MaxTxFee, appended |-> <<>>, rebound |-> FALSE, length |-> 0]
  ELSE measured_pass(TRUE, ins, original_outputs, pass1.changes, MaxTxFee, rs,
                     MeasuredTxLen(ins, original_outputs \o pass1.changes,
                                   MaxTxFee, rs))

add_change_and_fee(change_address, ins, outs, f, rs) ==
  IF change_address # NoAddress
  THEN max_fee_pass(ins, outs, rs, calc_change(MaxTxFee, ins, outs, FALSE))
  ELSE measured_pass(FALSE, ins, outs, <<>>, f, rs,
                     MeasuredTxLen(ins, outs, f, rs))

(***************************************************************************)
(* build: the selection driver and the orchestration.                      *)
(***************************************************************************)
\* The default selectors: RandomImproveMultiAsset, then LargestFirstSelector.
NSelectors == 2

MaxSelect == 2

\* What a selector answers: UTxOSelectionException, or some UTxOs.
SelectorFails == [ok |-> FALSE, selected |-> <<>>]

Covers(v, request) ==
  /\ v.coin >= request.coin
  /\ \A k \in DOMAIN request.ma : MAGet(v.ma, k) >= request.ma[k]

\* A selector succeeds only with UTxOs of the pool that cover the request
\* (spec.md 6, UTxOSelector); it returns them in an order of its choice.
SelectorAnswers(pool, request) ==
  {SelectorFails} \cup
  { [ok |-> TRUE, selected |-> sel] :
      sel \in { q \in UNION {[1..n -> Range(pool)] : n \in 1..MaxSelect} :
                  /\ \A i, j \in 1..Len(q) : i # j => q[i] # q[j]
                  /\ Covers(VSum(InputAmounts(q)), request) } }

\* Fault variant of the conflict check: it never raises.
no_input_exclusion_check(ins, excluded) == TRUE

ensure_no_input_exclusion_conflict(ins, excluded) ==
  Range(ins) \cap excluded = {}

\* unfulfilled_amount of build(): requested minus the selected amount trimmed
\* to the requested assets, the coin clamped at 0, non-positive assets removed.
UnfulfilledAmount(ins, outs) ==
  LET selected0 == VSum(InputAmounts(ins))
      selected_amount == IF DOMAIN mint # {}
                         THEN Value(selected0.coin, MAAdd(selected0.ma, mint))
                         ELSE selected0
      requested_amount == VSum(OutputAmounts(outs))
      trimmed_selected_amount ==
        Value(selected_amount.coin,
              MARestrict(selected_amount.ma, DOMAIN requested_amount.ma))
      unfulfilled == VSub(requested_amount, trimmed_selected_amount)
  IN Value(Max(0, unfulfilled.coin), MAPositive(unfulfilled.ma))

\* "if Value() < unfulfilled_amount"
SelectionNeeded(unfulfilled) == VLt(ZeroValue, unfulfilled)

RECURSIVE AdditionalUTxOPoolWithExcluded(_, _, _)
\* Fault variant of the pool: the excluded UTxOs are not left out.
AdditionalUTxOPoolWithExcluded(addresses, selected_utxos, excluded) ==
  IF addresses = <<>> THEN <<>>
  ELSE SelectSeq(ContextUTxOs(Head(addresses)),
                 LAMBDA u : u \notin Range(selected_utxos))
       \o AdditionalUTxOPoolWithExcluded(Tail(addresses), selected_utxos, excluded)

RECURSIVE AdditionalUTxOPool(_, _, _)
\* The UTxOs at the input addresses that are neither selected nor excluded.
AdditionalUTxOPool(addresses, selected_utxos, excluded) ==
  IF addresses = <<>> THEN <<>>
  ELSE SelectSeq(ContextUTxOs(Head(addresses)),
                 LAMBDA u : u \notin Range(selected_utxos) /\ u \notin excluded)
       \o AdditionalUTxOPool(Tail(addresses), selected_utxos, excluded)

RECURSIVE SelectorLoopSwallowsLast(_, _, _, _, _)
\* Fault variant of the loop: the failure of the last selector is passed over
\* like the others.
SelectorLoopSwallowsLast(i, pool, unfulfilled, answers, calls) ==
  IF i > NSelectors THEN [status |-> "ok", selected |-> <<>>, calls |-> calls]
  ELSE LET call == [selector |-> i, pool |-> pool, amount |-> unfulfilled,
                    answer |-> answers[i]]
       IN IF answers[i].ok
          THEN [status |-> "ok", selected |-> answers[i].selected,
                calls |-> Append(calls, call)]
          ELSE SelectorLoopSwallowsLast(i + 1, pool, unfulfilled, answers,
                                        Append(calls, call))

RECURSIVE SelectorLoopNoBreak(_, _, _, _, _)
\* Fault variant of the loop: no break after a success, so the selectors that
\* follow are called too and their UTxOs merged as well.
SelectorLoopNoBreak(i, pool, unfulfilled, answers, calls) ==
  IF i > NSelectors THEN [status |-> "ok", selected |-> <<>>, calls |-> calls]
  ELSE LET call == [selector |-> i, pool |-> pool, amount |-> unfulfilled,
                    answer |-> answers[i]]
           rest == SelectorLoopNoBreak(i + 1, pool, unfulfilled, answers,
                                       Append(calls, call))
       IN IF answers[i].ok
          THEN [rest EXCEPT !.selected = answers[i].selected \o @]
          ELSE IF i < NSelectors THEN rest
          ELSE [status |-> "UTxOSelection", selected |-> <<>>,
                calls |-> Append(calls, call)]

RECURSIVE SelectorLoop(_, _, _, _, _)
\* for i, selector in enumerate(self.utxo_selectors): the first success ends
\* the loop; a failure is passed over unless the selector is the last one.
SelectorLoop(i, pool, unfulfilled, answers, calls) ==
  IF i > NSelectors THEN [status |-> "ok", selected |-> <<>>, calls |-> calls]
  ELSE LET call == [selector |-> i, pool |-> pool, amount |-> unfulfilled,
                    answer |-> answers[i]]
       IN IF answers[i].ok
          THEN [status |-> "ok", selected |-> answers[i].selected,
                calls |-> Append(calls, call)]
          ELSE IF i < NSelectors
          THEN SelectorLoop(i + 1, pool, unfulfilled, answers, Append(calls, call))
          ELSE [status |-> "UTxOSelection", selected |-> <<>>,
                calls |-> Append(calls, call)]

\* What build() leaves and reports when it raises before changing anything.
build_raised(status, queried, calls, unfulfilled_amount, pool) ==
  [status |-> status, queried |-> queried, calls |-> calls,
   unfulfilled |-> unfulfilled_amount, pool |-> pool,
   inputs |-> inputs, outputs |-> outputs, fee |-> fee,
   redeemers |-> redeemers, appended |-> <<>>, rebound |-> FALSE,
   length |-> 0]

\* self.inputs[:] = selected_utxos; the redeemers are rs; _add_change_and_fee
\* has answered acf.
build_result(queried, calls, unfulfilled_amount, pool, selected_utxos, rs, acf) ==
  [status |-> acf.status, queried |-> queried, calls |-> calls,
   unfulfilled |-> unfulfilled_amount, pool |-> pool,
   inputs |-> selected_utxos, outputs |-> acf.outputs, fee |-> acf.fee,
   redeemers |-> rs, appended |-> acf.appended, rebound |-> acf.rebound,
   length |-> acf.length]

\* selected_utxos is sorted: _set_redeemer_index, then _add_change_and_fee.
build_sorted(change_address, queried, calls, unfulfilled_amount, pool, selected_utxos, rs) ==
  build_result(queried, calls, unfulfilled_amount, pool, selected_utxos, rs,
               add_change_and_fee(change_address, selected_utxos, outputs, fee, rs))

\* The selection has ended as selection says.
build_selected(change_address, queried, unfulfilled_amount, pool, selection) ==
  IF selection.status # "ok"
  THEN build_raised(selection.status, queried, selection.calls,
                    unfulfilled_amount, pool)
  ELSE build_sorted(change_address, queried, selection.calls,
                    unfulfilled_amount, pool,
                    SortUTxOs(inputs \o selection.selected),
                    set_redeemer_index(SortUTxOs(inputs \o selection.selected),
                                       redeemers, inputs_to_redeemers))

\* additional_utxo_pool is pool: the selectors are tried on it.
build_select(change_address, answers, unfulfilled_amount, pool) ==
  build_selected(change_address, input_addresses, unfulfilled_amount, pool,
                 SelectorLoop(1, pool, unfulfilled_amount, answers, <<>>))

\* unfulfilled_amount is computed: selection only if it is greater than empty.
build_unfulfilled(change_address, answers, unfulfilled_amount) ==
  IF SelectionNeeded(unfulfilled_amount)
  THEN build_select(change_address, answers, unfulfilled_amount,
                    AdditionalUTxOPool(input_addresses, inputs, excluded_inputs))
  ELSE build_selected(change_address, <<>>, unfulfilled_amount, <<>>,
                      [status |-> "ok", selected |-> <<>>, calls |-> <<>>])

\* build(change_address), the selectors answering as answers says.
build(change_address, answers) ==
  IF ~ ensure_no_input_exclusion_conflict(inputs, excluded_inputs)
  THEN build_raised("TransactionBuilder", <<>>, <<>>, ZeroValue, <<>>)
  ELSE build_unfulfilled(change_address, answers,
                         UnfulfilledAmount(inputs, outputs))

(***************************************************************************)
(* The state machine: one action per public operation of the builder.      *)
(***************************************************************************)
NoBody == [inputs |-> <<>>, outputs |-> <<>>, fee |-> -1]

\* The builder's state as a caller observes it.
Snapshot == [inputs |-> inputs, outputs |-> outputs, fee |-> fee,
             redeemers |-> redeemers]

NoSnapshot == [inputs |-> <<>>, outputs |-> <<>>, fee |-> 0, redeemers |-> <<>>]

\* The record of an operation other than build.
Did(op, status) ==
  [op |-> op, status |-> status, change_address |-> NoAddress, pre |-> NoSnapshot,
   queried |-> <<>>, calls |-> <<>>, unfulfilled |-> ZeroValue, pool |-> <<>>,
   length |-> 0]

\* packer records one call of _pack_tokens_for_change on its own: the residual
\* passed as change_estimator and the list returned.
NotPacking ==
  [change_estimator |-> ZeroValue, multi_asset_arr |-> <<>>, done |-> FALSE]

\* TransactionBuilder(context): the state after construction.
NewBuilder ==
  /\ inputs = <<>>
  /\ excluded_inputs = {}
  /\ input_addresses = <<>>
  /\ outputs = <<>>
  /\ fee = 0
  /\ mint = NoMint
  /\ scripts = <<>>
  /\ datums = <<>>
  /\ redeemers = <<>>
  /\ inputs_to_redeemers = [u \in {} |-> 0]
  /\ body = NoBody
  /\ shares = FALSE
  /\ last = Did("init", "ok")
  /\ nbuilds = 0
  /\ nops = 0

\* witnessing records one call of _build_fake_vkey_witnesses on its own: the
\* inputs, collaterals and native scripts of the builder, and the number of
\* witnesses returned.
NotWitnessing ==
  [inputs |-> <<>>, collaterals |-> <<>>, native_scripts |-> <<>>,
   vkey_witnesses |-> 0, done |-> FALSE]

Init == NewBuilder /\ packer = NotPacking /\ witnessing = NotWitnessing

add_input(u) ==
  /\ Len(inputs) < MaxInputs
  /\ inputs' = Append(inputs, u)
  /\ last' = Did("add_input", "ok")
  /\ UNCHANGED <<excluded_inputs, input_addresses, outputs, fee, mint, scripts,
                 datums, redeemers, inputs_to_redeemers, body, shares, nbuilds>>

\* Fault variant of add_script_input: the datum hash is not compared.
add_script_input_any_datum(u, datum) ==
  IF UTxO(u).address \notin ScriptAddresses
  THEN /\ last' = Did("add_script_input", "InvalidArgument")
       /\ UNCHANGED <<inputs, excluded_inputs, input_addresses, outputs, fee, mint,
                      scripts, datums, redeemers, inputs_to_redeemers, body,
                      shares, nbuilds>>
  ELSE /\ Len(inputs) < MaxInputs
       /\ scripts' = Append(scripts, u)
       /\ datums' = Append(datums, datum)
       /\ redeemers' = Append(redeemers,
                              [id |-> Len(redeemers) + 1, index |-> 0,
                               mem |-> RedeemerMem, steps |-> RedeemerSteps])
       /\ inputs_to_redeemers' =
            [v \in DOMAIN inputs_to_redeemers \cup {u} |->
               IF v = u THEN Len(redeemers) + 1 ELSE inputs_to_redeemers[v]]
       /\ inputs' = Append(inputs, u)
       /\ last' = Did("add_script_input", "ok")
       /\ UNCHANGED <<excluded_inputs, input_addresses, outputs, fee, mint, body,
                      shares, nbuilds>>

\* The redeemer the caller passes is a new object, its index 0.
add_script_input(u, datum) ==
  IF \/ UTxO(u).address \notin ScriptAddresses
     \/ UTxO(u).datum_hash # DatumHash(datum)
  THEN /\ last' = Did("add_script_input", "InvalidArgument")
       /\ UNCHANGED <<inputs, excluded_inputs, input_addresses, outputs, fee, mint,
                      scripts, datums, redeemers, inputs_to_redeemers, body,
                      shares, nbuilds>>
  ELSE /\ Len(inputs) < MaxInputs
       /\ scripts' = Append(scripts, u)
       /\ datums' = Append(datums, datum)
       /\ redeemers' = Append(redeemers,
                              [id |-> Len(redeemers) + 1, index |-> 0,
                               mem |-> RedeemerMem, steps |-> RedeemerSteps])
       /\ inputs_to_redeemers' =
            [v \in DOMAIN inputs_to_redeemers \cup {u} |->
               IF v = u THEN Len(redeemers) + 1 ELSE inputs_to_redeemers[v]]
       /\ inputs' = Append(inputs, u)
       /\ last' = Did("add_script_input", "ok")
       /\ UNCHANGED <<excluded_inputs, input_addresses, outputs, fee, mint, body,
                      shares, nbuilds>>

add_input_address(address) ==
  /\ Len(input_addresses) < MaxAddresses
  /\ input_addresses' = Append(input_addresses, address)
  /\ last' = Did("add_input_address", "ok")
  /\ UNCHANGED <<inputs, excluded_inputs, outputs, fee, mint, scripts, datums,
                 redeemers, inputs_to_redeemers, body, shares, nbuilds>>

\* add_output(tx_out) without a datum; a body that holds the builder's list
\* of outputs sees the new output too.
add_output(tx_out) ==
  /\ Len(outputs) < MaxOutputs
  /\ outputs' = Append(outputs, tx_out)
  /\ body' = IF shares THEN [body EXCEPT !.outputs = Append(@, tx_out)] ELSE body
  /\ last' = Did("add_output", "ok")
  /\ UNCHANGED <<inputs, excluded_inputs, input_addresses, fee, mint, scripts,
                 datums, redeemers, inputs_to_redeemers, shares, nbuilds>>

set_excluded_inputs(excluded) ==
  /\ excluded # excluded_inputs
  /\ excluded_inputs' = excluded
  /\ last' = Did("excluded_inputs", "ok")
  /\ UNCHANGED <<inputs, input_addresses, outputs, fee, mint, scripts, datums,
                 redeemers, inputs_to_redeemers, body, shares, nbuilds>>

set_mint(m) ==
  /\ m # mint
  /\ mint' = m
  /\ last' = Did("mint", "ok")
  /\ UNCHANGED <<inputs, excluded_inputs, input_addresses, outputs, fee, scripts,
                 datums, redeemers, inputs_to_redeemers, body, shares, nbuilds>>

\* The answers the selectors may give in this state; they are asked only when
\* something is unfulfilled.
PossibleAnswers ==
  LET unfulfilled == UnfulfilledAmount(inputs, outputs)
  IN IF /\ ensure_no_input_exclusion_conflict(inputs, excluded_inputs)
        /\ SelectionNeeded(unfulfilled)
     THEN [1..NSelectors ->
             SelectorAnswers(AdditionalUTxOPool(input_addresses, inputs,
                                                excluded_inputs),
                             unfulfilled)]
     ELSE {[i \in 1..NSelectors |-> SelectorFails]}

Build(change_address) ==
  /\ nbuilds < MaxBuilds
  /\ \E answers \in PossibleAnswers :
       \E r \in {build(change_address, answers)} :
          /\ inputs' = r.inputs
          /\ redeemers' = r.redeemers
          /\ fee' = r.fee
          /\ outputs' = r.outputs
          /\ body' = IF r.status = "ok"
                     THEN build_tx_body(r.inputs, r.outputs, r.fee)
                     ELSE IF shares
                     THEN [body EXCEPT !.outputs = @ \o r.appended]
                     ELSE body
          /\ shares' = IF r.status = "ok" THEN TRUE ELSE shares /\ ~ r.rebound
          /\ last' = [op |-> "build", status |-> r.status,
                      change_address |-> change_address, pre |-> Snapshot,
                      queried |-> r.queried, calls |-> r.calls,
                      unfulfilled |-> r.unfulfilled, pool |-> r.pool,
                      length |-> r.length]
  /\ nbuilds' = nbuilds + 1
  /\ UNCHANGED <<excluded_inputs, input_addresses, mint, scripts, datums,
                 inputs_to_redeemers>>

\* Every operation counts towards the bound on the length of a run.
Step(op) ==
  nops < MaxOps /\ op /\ nops' = nops + 1 /\ UNCHANGED <<packer, witnessing>>

Next ==
  \/ \E u \in KeyUTxOs : Step(add_input(u))
  \/ \E u \in UTxOIds, d \in DatumChoices : Step(add_script_input(u, d))
  \/ \E a \in InputAddressChoices : Step(add_input_address(a))
  \/ \E o \in OutputChoices : Step(add_output(o))
  \/ \E e \in ExcludedChoices : Step(set_excluded_inputs(e))
  \/ \E m \in MintChoices : Step(set_mint(m))
  \/ \E ca \in {ChangeAddress, NoAddress} : Step(Build(ca))

Spec == Init /\ [][Next]_vars

(***************************************************************************)
(* Vocabulary of the properties.  They speak of the state right after a    *)
(* build(): last.pre is the builder as it was when build() was called.     *)
(***************************************************************************)
AfterBuild == last.op = "build"

BuiltOk == AfterBuild /\ last.status = "ok"

BuiltWithChange == BuiltOk /\ last.change_address = ChangeAddress

AssetKeys == {1, 2} \X {1, 2}

\* Equality of two values coin by coin and asset by asset (absent = 0).
SameValue(a, b) ==
  /\ a.coin = b.coin
  /\ \A k \in AssetKeys : MAGet(a.ma, k) = MAGet(b.ma, k)

InputsPlusMint ==
  LET total == VSum(InputAmounts(inputs))
  IN Value(total.coin, MAAdd(total.ma, mint))

OutputsPlusFee == VAdd(VSum(OutputAmounts(outputs)), Value(fee, EmptyMA))

\* The length of the transaction of the builder's present state.
FinalTxLen == FullTxLen(inputs, outputs, fee, redeemers)

Count(s, x) == Cardinality({i \in 1..Len(s) : s[i] = x})

\* The UTxOs the successful selector returned in the last build, if any.
LastSelected ==
  IF last.calls # <<>> /\ last.calls[Len(last.calls)].answer.ok
  THEN last.calls[Len(last.calls)].answer.selected
  ELSE <<>>

\* (tx-id, index) order, stated on the digits of the transaction id.
TxIdBefore(a, b) ==
  \E i \in 1..Len(a) : a[i] < b[i] /\ \A j \in 1..(i - 1) : a[j] = b[j]

RefNotAfter(u, v) ==
  \/ TxIdBefore(UTxO(u).tid, UTxO(v).tid)
  \/ (UTxO(u).tid = UTxO(v).tid /\ UTxO(u).index <= UTxO(v).index)

Ascending(ins) == \A i, j \in 1..Len(ins) : i < j => RefNotAfter(ins[i], ins[j])

Conflict == Range(last.pre.inputs) \cap excluded_inputs # {}

\* What build() had to find, and where, computed from the state at the call.
DemandAtCall == UnfulfilledAmount(last.pre.inputs, last.pre.outputs)

PoolAtCall == AdditionalUTxOPool(input_addresses, last.pre.inputs, excluded_inputs)

BuilderAsBefore ==
  /\ inputs = last.pre.inputs
  /\ outputs = last.pre.outputs
  /\ fee = last.pre.fee
  /\ redeemers = last.pre.redeemers

\* The step is a call of build(change_address) with a change address.
IsBuildWithChange ==
  nbuilds' = nbuilds + 1 /\ last'.change_address = ChangeAddress

(***************************************************************************)
(* C1.  The body of every successful build(change_address) is balanced:    *)
(* inputs plus mint equal outputs plus fee, coin by coin and asset by      *)
(* asset.                                                                  *)
(***************************************************************************)
C1_Balanced == BuiltWithChange => SameValue(InputsPlusMint, OutputsPlusFee)

(***************************************************************************)
(* C2.  A second build(change_address) right after a successful one        *)
(* succeeds and returns the same body.                                     *)
(***************************************************************************)
C2_RebuildIdentical ==
  [][(BuiltWithChange /\ IsBuildWithChange)
       => (last'.status = "ok" /\ body' = body)]_vars

(***************************************************************************)
(* C3.  A build() that raises leaves inputs, outputs, fee and redeemers    *)
(* as they were before the call.                                           *)
(***************************************************************************)
C3_FailedBuildLeavesState ==
  [][(nbuilds' = nbuilds + 1 /\ last'.status # "ok")
       => (inputs' = inputs /\ outputs' = outputs /\ fee' = fee
           /\ redeemers' = redeemers)]_vars

(***************************************************************************)
(* C4.  Explicit inputs holding less coin than the declared outputs, and   *)
(* nothing to draw from.  As claimed: build(change_address) raises         *)
(* InvalidTransaction and the outputs are as before.                       *)
(***************************************************************************)
CoinShort == VSum(InputAmounts(last.pre.inputs)).coin
               < VSum(OutputAmounts(last.pre.outputs)).coin

NoOtherFunds == PoolAtCall = <<>>

C4_ShortIsInvalidTransaction ==
  (AfterBuild /\ last.change_address = ChangeAddress /\ CoinShort /\ NoOtherFunds)
    => (last.status = "InvalidTransaction" /\ outputs = last.pre.outputs)

\* C4 as amended: the build raises UTxOSelection, every selector having failed
\* (TransactionBuilder when an input is also excluded), never
\* InvalidTransaction, and the outputs are as before.
C4_ShortIsSelectionFailure ==
  (AfterBuild /\ last.change_address = ChangeAddress /\ CoinShort /\ NoOtherFunds)
    => /\ last.status = IF Conflict THEN "TransactionBuilder" ELSE "UTxOSelection"
       /\ outputs = last.pre.outputs

C4_Witness ==
  /\ AfterBuild /\ last.change_address = ChangeAddress /\ CoinShort /\ NoOtherFunds
  /\ last.pre.inputs # <<>>
  /\ last.status = "UTxOSelection"
  /\ Len(last.calls) = NSelectors

(***************************************************************************)
(* C5.  The final transaction of build(change_address) is no longer than   *)
(* the one measured with fee = max_tx_fee, so the fee of the body is at    *)
(* least the fee of the final transaction's length.                        *)
(***************************************************************************)
C5_FinalNoLargerThanMeasured ==
  BuiltWithChange =>
    /\ FinalTxLen <= last.length
    /\ fee >= CalcFee(FinalTxLen, SumSteps(redeemers), SumMem(redeemers))

(***************************************************************************)
(* C6.  As claimed: the fee of build(change_address) is the fee of the     *)
(* length of the final transaction.                                        *)
(***************************************************************************)
C6_FeeOfFinalLength ==
  BuiltWithChange =>
    fee = CalcFee(FinalTxLen, SumSteps(redeemers), SumMem(redeemers))

\* The transaction of the first pass: the declared outputs, the change
\* computed against max_tx_fee, and max_tx_fee as its fee.
FirstPassTxLen ==
  FullTxLen(inputs,
            last.pre.outputs
              \o calc_change(MaxTxFee, inputs, last.pre.outputs, FALSE).changes,
            MaxTxFee, redeemers)

\* C6 as amended: the fee is the fee of the length of the first-pass
\* transaction, with the sums of the redeemers' execution units.
C6_FeeOfFirstPassLength ==
  BuiltWithChange =>
    fee = CalcFee(FirstPassTxLen, SumSteps(redeemers), SumMem(redeemers))

C6_Witness ==
  /\ BuiltWithChange
  /\ redeemers # <<>>
  /\ FinalTxLen # FirstPassTxLen

(***************************************************************************)
(* C7.  After a successful build() the inputs are the explicit inputs and  *)
(* the selected ones, ascending by (tx-id, index), and the body's inputs   *)
(* are their references in that order.                                     *)
(***************************************************************************)
C7_InputsSorted ==
  BuiltOk =>
    /\ Ascending(inputs)
    /\ \A u \in UTxOIds :
         Count(inputs, u) = Count(last.pre.inputs, u) + Count(LastSelected, u)
    /\ body.inputs = [i \in 1..Len(inputs) |-> InputRef(inputs[i])]

C7_Witness ==
  /\ BuiltOk
  /\ ~ Ascending(last.pre.inputs)
  /\ Len(inputs) >= 2

C7_WitnessSelected ==
  /\ BuiltOk
  /\ Len(LastSelected) = 2
  /\ ~ Ascending(LastSelected)
  /\ last.pre.inputs # <<>>

(***************************************************************************)
(* C8.  After a successful build() the redeemer of every script input has  *)
(* the position of that input as its index, and the redeemers are          *)
(* ascending by index.                                                     *)
(***************************************************************************)
RedeemerOf(u) ==
  CHOOSE r \in Range(redeemers) : r.id = inputs_to_redeemers[u]

C8_RedeemerIndices ==
  BuiltOk =>
    /\ \A u \in DOMAIN inputs_to_redeemers :
         /\ \E r \in Range(redeemers) : r.id = inputs_to_redeemers[u]
         /\ RedeemerOf(u).index + 1 \in 1..Len(inputs)
         /\ inputs[RedeemerOf(u).index + 1] = u
    /\ \A i, j \in 1..Len(redeemers) :
         i < j => redeemers[i].index <= redeemers[j].index

\* A selected input sorts before a script input and moves its redeemer.
C8_Witness ==
  /\ BuiltOk
  /\ LastSelected # <<>>
  /\ \E u \in DOMAIN inputs_to_redeemers :
       /\ RedeemerOf(u).index > 0
       /\ inputs[RedeemerOf(u).index] \in Range(LastSelected)

\* Two redeemers that the sort had to exchange.
C8_WitnessReordered ==
  /\ BuiltOk
  /\ Len(redeemers) = 2
  /\ redeemers[1].id > redeemers[2].id
  /\ redeemers[1].index < redeemers[2].index

(***************************************************************************)
(* C9.  When the unfulfilled amount is greater than empty, build() calls   *)
(* the selectors in list order with the same pool and amount, stops at the *)
(* first that succeeds and merges its UTxOs only; it raises UTxOSelection  *)
(* exactly when all of them fail.                                          *)
(***************************************************************************)
C9_SelectorsInOrder ==
  (AfterBuild /\ ~ Conflict /\ VLt(ZeroValue, DemandAtCall)) =>
    LET n == Len(last.calls)
    IN /\ n \in 1..NSelectors
       /\ \A i \in 1..n :
            /\ last.calls[i].selector = i
            /\ last.calls[i].pool = PoolAtCall
            /\ last.calls[i].amount = DemandAtCall
       /\ \A i \in 1..(n - 1) : ~ last.calls[i].answer.ok
       /\ IF last.calls[n].answer.ok
          THEN /\ last.status # "UTxOSelection"
               /\ \A u \in UTxOIds :
                    Count(inputs, u) = Count(last.pre.inputs, u)
                                         + Count(last.calls[n].answer.selected, u)
          ELSE /\ n = NSelectors
               /\ last.status = "UTxOSelection"
               /\ inputs = last.pre.inputs

\* The first selector fails, the second one succeeds.
C9_Witness ==
  /\ BuiltOk
  /\ Len(last.calls) = 2
  /\ ~ last.calls[1].answer.ok
  /\ last.calls[2].answer.ok
  /\ Len(last.pool) >= 2

(***************************************************************************)
(* C10.  With a UTxO both in inputs and in excluded_inputs, build() raises *)
(* the TransactionBuilder error without querying the chain context,        *)
(* without calling a selector and without changing the builder.            *)
(***************************************************************************)
C10_ConflictFirst ==
  (AfterBuild /\ Conflict) =>
    /\ last.status = "TransactionBuilder"
    /\ last.queried = <<>>
    /\ last.calls = <<>>
    /\ BuilderAsBefore

\* A conflict in a builder whose outputs ask for more than its inputs hold.
C10_Witness ==
  /\ AfterBuild /\ Conflict
  /\ VLt(ZeroValue, DemandAtCall)
  /\ last.status = "TransactionBuilder"

(***************************************************************************)
(* C11.  The pool every selector is called with holds no UTxO that is an   *)
(* explicit input and none that is excluded; after a successful build()    *)
(* no input is an excluded UTxO.                                           *)
(***************************************************************************)
C11_PoolLeavesOutExcluded ==
  AfterBuild =>
    /\ \A i \in 1..Len(last.calls) :
         Range(last.calls[i].pool)
           \cap (Range(last.pre.inputs) \cup excluded_inputs) = {}
    /\ last.status = "ok" => Range(inputs) \cap excluded_inputs = {}

\* A selection from a pool at an address that holds an excluded UTxO.
C11_Witness ==
  /\ BuiltOk
  /\ LastSelected # <<>>
  /\ excluded_inputs # {}
  /\ \E a \in Range(input_addresses) :
       excluded_inputs \subseteq Range(ContextUTxOs(a))

\* The change outputs of the last build: what follows the outputs it found.
ChangeOutputs == SubSeq(outputs, Len(last.pre.outputs) + 1, Len(outputs))

(***************************************************************************)
(* C12.  After a successful build(change_address) every change output      *)
(* carries at least the min-lovelace of its amount.                        *)
(***************************************************************************)
C12_ChangeMeetsMinLovelace ==
  BuiltWithChange =>
    \A i \in 1..Len(ChangeOutputs) :
      ChangeOutputs[i].amount.coin >= MinLovelace(ChangeOutputs[i].amount)

\* The residual of the exact-fee pass of the last build: inputs plus mint
\* minus the outputs build() found and the fee, non-positive assets removed.
FinalResidual ==
  LET r == VSub(InputsPlusMint,
                VAdd(VSum(OutputAmounts(last.pre.outputs)), Value(fee, EmptyMA)))
  IN Value(r.coin, RemoveZeroAssets(r.ma))

\* The buckets the packer returns for that residual.
FinalBuckets ==
  IF DOMAIN FinalResidual.ma = {} THEN <<>>
  ELSE pack_tokens_for_change(FinalResidual)

(***************************************************************************)
(* C13.  After a successful build(change_address) the amount of every      *)
(* change output is at most max_val_size bytes long with the coin it       *)
(* carries, and every bucket of the packer is with its min-lovelace.       *)
(***************************************************************************)
C13_ChangeFitsMaxValSize ==
  BuiltWithChange =>
    /\ \A i \in 1..Len(ChangeOutputs) :
         ValueLen(ChangeOutputs[i].amount) <= max_val_size
    /\ \A i \in 1..Len(FinalBuckets) :
         ValueLen(Value(MinLovelace(Value(0, FinalBuckets[i])), FinalBuckets[i]))
           <= max_val_size


(* C14. Every successful build returns a body whose full transaction, that
   is the body with its final fee and outputs, one vkey witness per required
   signer, the redeemers, datums and scripts, serializes to at most
   max_tx_size bytes, with a change address and without one. *)
C14_FinalTxFitsMaxTxSize ==
  BuiltOk => FinalTxLen <= max_tx_size


\* provided - requested of the last build before the filter of lines 299-301.
RawResidual ==
  VSub(InputsPlusMint,
       VAdd(VSum(OutputAmounts(last.pre.outputs)), Value(fee, EmptyMA)))

(* C15. After a successful build with a change address no change output
   holds an asset entry with a quantity of zero or less, and after every
   successful build no output of the returned body holds an entry with
   quantity zero (the declared outputs hold none). *)
C15_NoNonPositiveAssets ==
  /\ BuiltWithChange =>
       \A i \in 1..Len(ChangeOutputs) :
         \A k \in DOMAIN ChangeOutputs[i].amount.ma :
           ChangeOutputs[i].amount.ma[k] > 0
  /\ BuiltOk =>
       \A i \in 1..Len(body.outputs) :
         \A k \in DOMAIN body.outputs[i].amount.ma :
           body.outputs[i].amount.ma[k] # 0

\* A successful build with change whose residual had an entry of zero or less
\* and left assets for the change outputs.
C15_Witness ==
  /\ BuiltWithChange
  /\ \E k \in DOMAIN RawResidual.ma : RawResidual.ma[k] <= 0
  /\ \E i \in 1..Len(ChangeOutputs) : DOMAIN ChangeOutputs[i].amount.ma # {}


(* C16. The body returned by build is independent of the builder: once
   returned, its inputs, outputs and fee change with no later operation on
   the builder; the body variable changes only when a successful build
   returns a new body. *)
C16_BodyIndependent ==
  [][body' # body => (nbuilds' # nbuilds /\ last'.status = "ok")]_vars


\* The step is a call of add_script_input that raised InvalidArgument.
ScriptInputRejected ==
  last'.op = "add_script_input" /\ last'.status = "InvalidArgument"

\* The step is a call of add_script_input that returned.
ScriptInputAdded ==
  last'.op = "add_script_input" /\ last'.status = "ok"

\* s2 is s1 with exactly one entry appended.
OneAppended(s1, s2) ==
  Len(s2) = Len(s1) + 1 /\ SubSeq(s2, 1, Len(s1)) = s1

\* The effect lines 124-128 have in a step: one entry appended to each of
\* scripts, datums, redeemers and inputs, the mapping of the utxo set to the
\* new redeemer, and the utxo and datum such that neither check raised.
ScriptInputEffect ==
  /\ OneAppended(inputs, inputs') /\ OneAppended(scripts, scripts')
  /\ OneAppended(datums, datums') /\ OneAppended(redeemers, redeemers')
  /\ UTxO(inputs'[Len(inputs')]).address \in ScriptAddresses
  /\ UTxO(inputs'[Len(inputs')]).datum_hash = DatumHash(datums'[Len(datums')])
  /\ DOMAIN inputs_to_redeemers' = DOMAIN inputs_to_redeemers \cup {inputs'[Len(inputs')]}
  /\ inputs_to_redeemers'[inputs'[Len(inputs')]] = redeemers'[Len(redeemers')].id
  /\ \A v \in DOMAIN inputs_to_redeemers \ {inputs'[Len(inputs')]} :
       inputs_to_redeemers'[v] = inputs_to_redeemers[v]
  /\ Count([i \in 1..Len(redeemers') |-> redeemers'[i].id],
           redeemers'[Len(redeemers')].id) = 1

(* C17, as amended.  add_script_input either raises InvalidArgument and
   leaves inputs, scripts, datums, redeemers and the mapping as they were,
   or, the address being a script address and the datum hash matching,
   appends exactly one entry to each of the four lists and maps the utxo to
   the new redeemer: every call that returns adds exactly one redeemer. *)
C17_AddScriptInputEffect ==
  [][/\ ScriptInputRejected =>
          UNCHANGED <<inputs, scripts, datums, redeemers, inputs_to_redeemers>>
     /\ ScriptInputAdded => ScriptInputEffect]_vars

\* add_script_input has returned for a utxo the builder held already.
C17_Witness ==
  /\ last.op = "add_script_input" /\ last.status = "ok"
  /\ Len(inputs) = 2 /\ inputs[1] = inputs[2]
  /\ Len(redeemers) = 2

(* C17, as stated.  In addition every script input added by add_script_input
   has exactly one redeemer among the redeemers of the builder (scripts,
   datums and redeemers are parallel lists: redeemers[i] was passed with
   scripts[i]). *)
C17_OneRedeemerPerScriptInput ==
  [][/\ ScriptInputRejected =>
          UNCHANGED <<inputs, scripts, datums, redeemers, inputs_to_redeemers>>
     /\ ScriptInputAdded =>
          /\ ScriptInputEffect
          /\ \A u \in DOMAIN inputs_to_redeemers' : Count(scripts', u) = 1]_vars


RECURSIVE SumMinLovelace(_)
\* The sum of min_lovelace(Value(0, multi_asset)) over the buckets arr.
SumMinLovelace(arr) ==
  IF arr = <<>> THEN 0
  ELSE MinLovelace(Value(0, Head(arr))) + SumMinLovelace(Tail(arr))

\* The last build had a change address and came to its second _calc_change:
\* the first one returned and the measured transaction was within max_tx_size.
ExactPassReached ==
  /\ AfterBuild /\ last.change_address = ChangeAddress
  /\ last.length \in 1..max_tx_size

(* C18. With a change address, when the residual of the exact pass holds
   assets and its coin is below the sum of the min-lovelace of the change
   buckets, build raises InsufficientUTxOBalance; and no successful build
   returns a change output with assets whose coin is below its min-lovelace
   or negative. *)
C18_ShortOfMinLovelaceRaises ==
  /\ (ExactPassReached /\ FinalBuckets # <<>>
        /\ RawResidual.coin < SumMinLovelace(FinalBuckets))
       => last.status = "InsufficientUTxOBalance"
  /\ BuiltWithChange =>
       \A i \in 1..Len(ChangeOutputs) :
         DOMAIN ChangeOutputs[i].amount.ma # {} =>
           /\ ChangeOutputs[i].amount.coin >= MinLovelace(ChangeOutputs[i].amount)
           /\ ChangeOutputs[i].amount.coin >= 0

\* A build whose exact residual holds assets and too little coin for them.
C18_Witness ==
  /\ ExactPassReached /\ FinalBuckets # <<>>
  /\ RawResidual.coin < SumMinLovelace(FinalBuckets)
  /\ RawResidual.coin >= 0


(***************************************************************************)
(* _pack_tokens_for_change on its own: a residual is drawn, the packer is  *)
(* called on it once.                                                      *)
(***************************************************************************)
\* Quantities of the residuals: of one CBOR byte and of two.
ResidualQuantities == {1, 3, 24}

ResidualCoins == {0, 1000}

\* The non-negative residuals with a non-empty multi-asset.
Residuals ==
  { Value(c, m) :
      c \in ResidualCoins,
      m \in UNION { [K -> ResidualQuantities] : K \in (SUBSET AssetKeys) \ {{}} } }

PackInit ==
  /\ NewBuilder
  /\ packer \in { [change_estimator |-> r, multi_asset_arr |-> <<>>, done |-> FALSE] :
                    r \in Residuals }
  /\ witnessing = NotWitnessing

\* multi_asset_arr = self._pack_tokens_for_change(address, change, max_val_size)
pack_tokens_for_change_call ==
  /\ ~ packer.done
  /\ packer' = [packer EXCEPT
                  !.multi_asset_arr = pack_tokens_for_change(packer.change_estimator),
                  !.done = TRUE]
  /\ UNCHANGED <<inputs, excluded_inputs, input_addresses, outputs, fee, mint,
                 scripts, datums, redeemers, inputs_to_redeemers,
                 body, shares, last, nbuilds, nops, witnessing>>

PackNext == pack_tokens_for_change_call

PackSpec == PackInit /\ [][PackNext]_vars

\* The buckets that hold the asset k.
BucketsWith(k) ==
  {i \in 1..Len(packer.multi_asset_arr) : k \in DOMAIN packer.multi_asset_arr[i]}

(* C19. For every non-negative residual with a non-empty multi-asset the
   buckets returned by _pack_tokens_for_change partition it: every asset of
   the residual is in exactly one bucket with its quantity, no bucket holds
   an asset the residual does not hold, no bucket is empty, and the buckets
   follow the policy-then-asset order of the keys; nothing is dropped when a
   bucket overflows. *)
C19_BucketsPartitionResidual ==
  packer.done =>
    /\ \A k \in DOMAIN packer.change_estimator.ma :
         /\ Cardinality(BucketsWith(k)) = 1
         /\ \A i \in BucketsWith(k) :
              packer.multi_asset_arr[i][k] = packer.change_estimator.ma[k]
    /\ \A i \in 1..Len(packer.multi_asset_arr) :
         /\ DOMAIN packer.multi_asset_arr[i] # {}
         /\ DOMAIN packer.multi_asset_arr[i] \subseteq DOMAIN packer.change_estimator.ma
    /\ \A i, j \in 1..Len(packer.multi_asset_arr) :
         i < j => \A k1 \in DOMAIN packer.multi_asset_arr[i],
                     k2 \in DOMAIN packer.multi_asset_arr[j] : KeyLess(k1, k2)


\* The changes the second _calc_change returns: against the final fee, with
\* precise_fee=True.
ExactPassChanges == calc_change(fee, inputs, last.pre.outputs, TRUE).changes

(* C20. After a successful build with a change address the outputs are the
   declared outputs, unaltered and in their order, followed by the change
   outputs of the exact-fee pass in the order of the packer's buckets; no
   change output of the max-fee pass remains. *)
C20_DeclaredThenExactChange ==
  BuiltWithChange =>
    /\ outputs = last.pre.outputs \o ExactPassChanges
    /\ body.outputs = outputs
    /\ FinalBuckets # <<>> =>
         /\ Len(ChangeOutputs) = Len(FinalBuckets)
         /\ \A i \in 1..Len(FinalBuckets) :
              ChangeOutputs[i].amount.ma = FinalBuckets[i]
    /\ Len(outputs) = Len(last.pre.outputs) + Len(ExactPassChanges)
    /\ SubSeq(outputs, 1, Len(last.pre.outputs)) = last.pre.outputs

\* A successful build after a declared output, with two change outputs.
C20_Witness ==
  /\ BuiltWithChange
  /\ last.pre.outputs # <<>>
  /\ Len(ChangeOutputs) >= 2


\* requested_amount and selected_amount of build() at the call: the declared
\* outputs, and the explicit inputs plus the mint.
RequestedAtCall == VSum(OutputAmounts(last.pre.outputs))

ProvidedAtCall ==
  LET total == VSum(InputAmounts(last.pre.inputs))
  IN Value(total.coin, MAAdd(total.ma, mint))

\* The declared outputs demand more than the explicit inputs plus mint provide
\* in some component.
ShortInSomeComponent ==
  \/ RequestedAtCall.coin > ProvidedAtCall.coin
  \/ \E k \in DOMAIN RequestedAtCall.ma :
       RequestedAtCall.ma[k] > MAGet(ProvidedAtCall.ma, k)

(* C21. A build that passes the conflict check queries the input addresses
   and runs the selectors whenever the declared outputs demand more than the
   explicit inputs plus mint provide in some component, coin or a single
   asset, and does neither when nothing is unfulfilled; the amount handed to
   the selectors has a coin of at least 0 and holds only positive quantities
   of assets of the declared outputs. *)
C21_SelectionWheneverShort ==
  (AfterBuild /\ ~ Conflict) =>
    /\ ShortInSomeComponent =>
         (last.queried = input_addresses /\ Len(last.calls) >= 1)
    /\ ~ ShortInSomeComponent => (last.queried = <<>> /\ last.calls = <<>>)
    /\ \A i \in 1..Len(last.calls) :
         /\ last.calls[i].amount.coin >= 0
         /\ \A k \in DOMAIN last.calls[i].amount.ma :
              /\ last.calls[i].amount.ma[k] > 0
              /\ k \in DOMAIN RequestedAtCall.ma


(***************************************************************************)
(* _build_fake_vkey_witnesses on its own: inputs, collaterals and native   *)
(* scripts are drawn, the witnesses are built once.  A native script is a  *)
(* record of its type, its key hash (ScriptPubkey) and its children; a     *)
(* verification-key hash is written as the key address it belongs to, "K"  *)
(* being a key that holds no UTxO.                                         *)
(***************************************************************************)
NoKeyHash == "none"

ScriptPubkey(h) == [type |-> "ScriptPubkey", key_hash |-> h, native_scripts |-> <<>>]

InvalidBefore == [type |-> "InvalidBefore", key_hash |-> NoKeyHash, native_scripts |-> <<>>]

Combinator(t, children) == [type |-> t, key_hash |-> NoKeyHash, native_scripts |-> children]

\* The scripts a caller declares: a script without children (a ScriptPubkey
\* or a time lock), a combinator over one or two of those, or a combinator
\* over one such combinator.
NativeScriptChoices ==
  LET CombinatorTypes == {"ScriptAll", "ScriptAny", "ScriptNofK"}
      LeafScripts == {ScriptPubkey(h) : h \in {"A", "K"}} \cup {InvalidBefore}
      FlatScripts ==
        { Combinator(t, c) :
            t \in CombinatorTypes,
            c \in {<<x>> : x \in LeafScripts}
                   \cup {<<x, y>> : x \in LeafScripts, y \in LeafScripts} }
      NestedScripts ==
        { Combinator(t, <<x>>) : t \in CombinatorTypes, x \in FlatScripts }
  IN LeafScripts \cup FlatScripts \cup NestedScripts

RECURSIVE dfs(_)
\* _dfs(script): the key hash of a ScriptPubkey, the hashes under the
\* children of a ScriptAll or a ScriptAny, nothing for any other script.
dfs(script) ==
  IF script.type = "ScriptPubkey" THEN {script.key_hash}
  ELSE IF script.type \in {"ScriptAll", "ScriptAny"}
  THEN UNION {dfs(script.native_scripts[i]) : i \in 1..Len(script.native_scripts)}
  ELSE {}

native_scripts_vkey_hashes(native_scripts) ==
  UNION {dfs(native_scripts[i]) : i \in 1..Len(native_scripts)}

\* One placeholder witness per hash of the inputs, the collaterals and the
\* native scripts.
build_fake_vkey_witnesses_of(ins, collaterals, native_scripts) ==
  Cardinality(input_vkey_hashes(ins \o collaterals)
                \cup native_scripts_vkey_hashes(native_scripts))

WitnessInit ==
  /\ NewBuilder
  /\ packer = NotPacking
  /\ witnessing \in
       { [inputs |-> i, collaterals |-> c, native_scripts |-> n,
          vkey_witnesses |-> 0, done |-> FALSE] :
           i \in {<<>>, <<1>>, <<4>>, <<1, 2>>},
           c \in {<<>>, <<1>>},
           n \in {<<>>} \cup {<<x>> : x \in NativeScriptChoices} }

\* witness_set.vkey_witnesses = self._build_fake_vkey_witnesses()
build_fake_vkey_witnesses_call ==
  /\ ~ witnessing.done
  /\ witnessing' =
       [witnessing EXCEPT
          !.vkey_witnesses =
             build_fake_vkey_witnesses_of(witnessing.inputs, witnessing.collaterals,
                                          witnessing.native_scripts),
          !.done = TRUE]
  /\ UNCHANGED <<inputs, excluded_inputs, input_addresses, outputs, fee, mint,
                 scripts, datums, redeemers, inputs_to_redeemers,
                 body, shares, last, nbuilds, nops, packer>>

WitnessNext == build_fake_vkey_witnesses_call

WitnessSpec == WitnessInit /\ [][WitnessNext]_vars

RECURSIVE PubkeyLeaves(_)
\* The key hashes of the ScriptPubkey leaves of a script, under any script
\* that has children.
PubkeyLeaves(script) ==
  IF script.type = "ScriptPubkey" THEN {script.key_hash}
  ELSE UNION {PubkeyLeaves(script.native_scripts[i]) :
                i \in 1..Len(script.native_scripts)}

\* The hashes that have to sign: the payment parts of the inputs and
\* collaterals at key addresses and the leaves of the native scripts.
RequiredKeyHashes ==
  {UTxO(u).address :
     u \in {v \in Range(witnessing.inputs \o witnessing.collaterals) :
              UTxO(v).address \in KeyAddresses}}
    \cup UNION {PubkeyLeaves(witnessing.native_scripts[i]) :
                  i \in 1..Len(witnessing.native_scripts)}

(* C22. The number of placeholder vkey witnesses of the fake transaction is
   the number of distinct verification-key hashes among the payment parts of
   the inputs and collaterals at key addresses and the ScriptPubkey leaves,
   at any depth and under any combinator, of the declared native scripts. *)
C22_OneFakeWitnessPerKeyHash ==
  witnessing.done => witnessing.vkey_witnesses = Cardinality(RequiredKeyHashes)


\* requested of the first _calc_change: the declared outputs plus max_tx_fee.
RequestedAtMaxFee == VAdd(RequestedAtCall, Value(MaxTxFee, EmptyMA))

\* The inputs plus mint cover the declared outputs plus the fee in every
\* component, the coin with a surplus, some requested asset exactly.
CoveredWithEquality ==
  /\ RequestedAtMaxFee.coin < InputsPlusMint.coin
  /\ \A k \in DOMAIN RequestedAtMaxFee.ma :
       RequestedAtMaxFee.ma[k] <= MAGet(InputsPlusMint.ma, k)
  /\ \E k \in DOMAIN RequestedAtMaxFee.ma :
       RequestedAtMaxFee.ma[k] = MAGet(InputsPlusMint.ma, k)

(* C23. A build with a change address whose inputs plus mint cover the
   declared outputs plus the fee component by component, with equality in
   some asset and a surplus of coin, is not rejected with InvalidTransaction
   for lack of funds (a transaction measured above max_tx_size aside), and
   when it succeeds the asset sent out entirely is in no change output. *)
C23_EqualityIsCovered ==
  (AfterBuild /\ last.change_address = ChangeAddress /\ ~ Conflict
     /\ last.status # "UTxOSelection" /\ CoveredWithEquality) =>
    /\ last.status = "InvalidTransaction" => last.length > max_tx_size
    /\ last.status = "ok" =>
         \A k \in DOMAIN RequestedAtMaxFee.ma :
           RequestedAtMaxFee.ma[k] = MAGet(InputsPlusMint.ma, k) =>
             \A i \in 1..Len(ChangeOutputs) : k \notin DOMAIN ChangeOutputs[i].amount.ma


\* Everything build() may spend: the explicit inputs, the mint, and the UTxOs
\* at the input addresses that are neither selected nor excluded.
AllFundsAtCall == VAdd(ProvidedAtCall, VSum(InputAmounts(PoolAtCall)))

\* The explicit inputs hold the coin of the declared outputs but not the fee.
CoinCoversOutputsNotFee ==
  /\ ProvidedAtCall.coin >= RequestedAtCall.coin
  /\ ProvidedAtCall.coin <= RequestedAtMaxFee.coin

(* C24. A build with a change address raises InvalidTransaction for lack of
   funds (from _calc_change, not for the size) only when the explicit inputs
   together with the UTxOs available at the input addresses cannot cover the
   declared outputs plus the fee; when
   the explicit inputs cover the declared outputs but not the fee and the
   addresses hold enough, the selectors are called for more inputs. *)
C24_RejectsOnlyWithoutFunds ==
  (AfterBuild /\ last.change_address = ChangeAddress /\ ~ Conflict
     /\ VLt(RequestedAtMaxFee, AllFundsAtCall)) =>
    /\ ~ (last.status = "InvalidTransaction" /\ last.length = 0)
    /\ CoinCoversOutputsNotFee => last.calls # <<>>

=============================================================================
